---- MODULE Spec2Model ----
(***************************************************************************)
(* Model of cartridges/utils/wandb.py: flatten and unflatten, the codec    *)
(* between nested dict/list values and flat dictionaries with '.'-joined   *)
(* keys; fetch_wandb_table and its thread pool; download_artifacts and its *)
(* barrier; and of MMLUGenerateDataset.score of cartridges/contexts/mmlu.  *)
(*                                                                         *)
(* Python values are tagged records [t, v]:                                *)
(*   scalar  [t |-> "scalar", v |-> name of the scalar]                    *)
(*   list    [t |-> "list",   v |-> sequence of values]                    *)
(*   dict    [t |-> "dict",   v |-> sequence of <<key, value>> pairs with  *)
(*            distinct keys, in insertion order]                           *)
(*   raise   [t |-> "raise",  v |-> name of the exception]                 *)
(* A str is a sequence of one-character strings; the key None is the       *)
(* one-element sequence None, which is no str.                             *)
(***************************************************************************)
EXTENDS Integers, Sequences, FiniteSets

\* op, arg, arg0, orig, ret, pc: a call of flatten or unflatten
\* fetch: a call of fetch_wandb_table
\* ddp: the processes of a run calling download_artifacts
\* mmlu: a call of MMLUGenerateDataset.score
VARIABLES op, arg, arg0, orig, ret, pc, fetch, ddp, mmlu

vars == <<op, arg, arg0, orig, ret, pc, fetch, ddp, mmlu>>

\* the value of a variable whose function is not called
Idle == [pc |-> "idle"]

-----------------------------------------------------------------------------
(* Bounds of the checked inputs *)

\* nested values given to flatten have at most MaxNodes nodes
MaxNodes == 4
\* flat dictionaries given to unflatten have at most MaxParts key segments in all
MaxParts == 3

\* scalars of the nested values: a number or string, float('nan'), None
Scalars == {"x", "nan", "null"}
\* scalars of the flat dictionaries
FlatScalars == {"x", "nan"}
\* keys of the dicts in the nested values (the last one contains the separator)
DataKeys == {<<"a">>, <<"0">>, <<"a", ".", "0">>}
\* segments of the keys of the flat dictionaries
Segs == {<<"a">>, <<"0">>, <<"1">>, <<"2">>, <<"0", "1">>, <<"a", "/", "0">>}

-----------------------------------------------------------------------------
(* Python values *)

Scalar(s) == [t |-> "scalar", v |-> s]
List(es) == [t |-> "list", v |-> es]
Dict(ps) == [t |-> "dict", v |-> ps]
Raise(e) == [t |-> "raise", v |-> e]
Unset == [t |-> "unset", v |-> ""]

None == <<"None">>

IsNaN(value) == value.t = "scalar" /\ value.v = "nan"

Keys(d) == {d.v[i][1] : i \in 1..Len(d.v)}
Has(d, k) == d.t = "dict" /\ k \in Keys(d)
Get(d, k) == d.v[CHOOSE i \in 1..Len(d.v) : d.v[i][1] = k][2]

\* d[k] = value: replaces the value of an existing key in place, else appends
SetItem(d, k, value) ==
    IF k \in Keys(d)
    THEN Dict([i \in 1..Len(d.v) |->
                 IF d.v[i][1] = k THEN <<k, value>> ELSE d.v[i]])
    ELSE Dict(Append(d.v, <<k, value>>))

\* items.update(other)
RECURSIVE Update(_, _)
Update(items, other) ==
    IF other.v = <<>> THEN items
    ELSE Update(SetItem(items, Head(other.v)[1], Head(other.v)[2]),
                Dict(Tail(other.v)))

-----------------------------------------------------------------------------
(* str(i), int(k), key.split(".") *)

Sep == <<".">>

DigitChars == <<"0", "1", "2", "3", "4", "5", "6", "7", "8", "9">>
Base == Len(DigitChars)

DigitVal(c) == (CHOOSE i \in 1..Base : DigitChars[i] = c) - 1
IsDigit(c) == \E i \in 1..Base : DigitChars[i] = c

RECURSIVE StrNat(_)
StrNat(n) ==
    IF n < Base THEN <<DigitChars[n + 1]>>
    ELSE StrNat(n \div Base) \o <<DigitChars[(n % Base) + 1]>>

\* str(i) of an int
Str(i) == IF i < 0 THEN <<"-">> \o StrNat(-i) ELSE StrNat(i)

AllDigits(s) == Len(s) > 0 /\ \A i \in 1..Len(s) : IsDigit(s[i])

\* int(k) succeeds: an optional sign and decimal digits (leading zeros allowed);
\* anything else raises ValueError
IntParses(k) ==
    /\ k # None
    /\ Len(k) > 0
    /\ IF k[1] \in {"-", "+"} THEN AllDigits(Tail(k)) ELSE AllDigits(k)

RECURSIVE NatOf(_)
NatOf(s) ==
    IF s = <<>> THEN 0
    ELSE NatOf(SubSeq(s, 1, Len(s) - 1)) * Base + DigitVal(s[Len(s)])

Int_(k) ==
    IF k[1] = "-" THEN 0 - NatOf(Tail(k))
    ELSE IF k[1] = "+" THEN NatOf(Tail(k))
    ELSE NatOf(k)

\* key.split("."): the segments between the separators, at least one
RECURSIVE Split(_)
Split(key) ==
    IF \A i \in 1..Len(key) : key[i] # Sep[1] THEN <<key>>
    ELSE LET i == CHOOSE j \in 1..Len(key) :
                     key[j] = Sep[1] /\ \A h \in 1..(j - 1) : key[h] # Sep[1]
         IN <<SubSeq(key, 1, i - 1)>> \o Split(SubSeq(key, i + 1, Len(key)))

-----------------------------------------------------------------------------
(* flatten *)

\* f"{parent_key}{k}": the separator left out
NewKeyNoSep(parent_key, k) ==
    IF parent_key # None THEN parent_key \o k ELSE k

\* f"{parent_key}{sep}{k}" if parent_key is not None else k
NewKey(parent_key, k) ==
    IF parent_key # None THEN parent_key \o Sep \o k ELSE k

\* the default of parent_key
DefaultParentKeyEmpty == <<>>
DefaultParentKey == None

RECURSIVE flatten(_, _), FlattenList(_, _, _, _), FlattenDict(_, _, _, _)

\* for i, v in enumerate(data): items.update(flatten(v, new_key))
FlattenList(data, parent_key, i, items) ==
    IF i > Len(data.v) THEN items
    ELSE FlattenList(data, parent_key, i + 1,
             Update(items, flatten(data.v[i], NewKey(parent_key, Str(i - 1)))))

\* for k, v in data.items(): items.update(flatten(v, new_key))
FlattenDict(data, parent_key, i, items) ==
    IF i > Len(data.v) THEN items
    ELSE FlattenDict(data, parent_key, i + 1,
             Update(items, flatten(data.v[i][2], NewKey(parent_key, data.v[i][1]))))

flatten(data, parent_key) ==
    IF data.t = "list" THEN FlattenList(data, parent_key, 1, Dict(<<>>))
    ELSE IF data.t = "dict" THEN FlattenDict(data, parent_key, 1, Dict(<<>>))
    ELSE Dict(<< <<parent_key, data>> >>)

-----------------------------------------------------------------------------
(* unflatten: the loop over the entries *)

\* Objects are reached through the two names the function holds: "arg", the
\* dictionary the caller passed, and "result", the dictionary created by
\* result = {}.  The local variable d is a reference to a node of one of them:
\* the object it started from and the keys followed since.

RECURSIVE At(_, _)
At(node, path) ==
    IF path = <<>> THEN node ELSE At(Get(node, Head(path)), Tail(path))

\* the object with node[path][k] = value
RECURSIVE SetAt(_, _, _, _)
SetAt(node, path, k, value) ==
    IF path = <<>> THEN SetItem(node, k, value)
    ELSE SetItem(node, Head(path), SetAt(Get(node, Head(path)), Tail(path), k, value))

Deref(st) == At(st.store[st.d.root], st.d.path)

\* d left as it is
RebindSkipped(d) == d

\* d = result
Rebind(d) == [root |-> "result", path |-> <<>>]

\* for part in parts[:-1]: if part not in d: d[part] = {}; d = d[part]
\* (a scalar d raises TypeError, at the test or at the item access)
RECURSIVE Walk(_, _, _)
Walk(st, parts, j) ==
    IF st.exc # "" \/ j > Len(parts) - 1 THEN st
    ELSE IF Deref(st).t # "dict" THEN [st EXCEPT !.exc = "TypeError"]
    ELSE Walk([st EXCEPT
                 !.store[st.d.root] =
                     IF Has(Deref(st), parts[j]) THEN @
                     ELSE SetAt(@, st.d.path, parts[j], Dict(<<>>)),
                 !.d.path = @ \o <<parts[j]>>],
              parts, j + 1)

\* the skip of an entry: isinstance(value, float) and np.isnan(value)
Skips(value) == IsNaN(value)

\* d[parts[-1]] = value, unless the entry is skipped
Assign(st, parts, value) ==
    IF st.exc # "" \/ Skips(value) THEN st
    ELSE IF Deref(st).t # "dict" THEN [st EXCEPT !.exc = "TypeError"]
    ELSE [st EXCEPT !.store[st.d.root] = SetAt(@, st.d.path, parts[Len(parts)], value)]

\* the body of the loop for one entry; None has no split
UnflattenEntry(st, key, value) ==
    IF key = None THEN [st EXCEPT !.exc = "AttributeError"]
    ELSE Assign(Walk([st EXCEPT !.d = Rebind(@)], Split(key), 1), Split(key), value)

\* for key, value in d.items(), over the items of the argument
RECURSIVE UnflattenLoop(_, _, _)
UnflattenLoop(st, items, i) ==
    IF st.exc # "" \/ i > Len(items) THEN st
    ELSE UnflattenLoop(UnflattenEntry(st, items[i][1], items[i][2]), items, i + 1)

\* the state at the loop's exit: result = {}, d still the parameter
LoopExit(d) ==
    UnflattenLoop([store |-> [arg |-> d, result |-> Dict(<<>>)],
                   d |-> [root |-> "arg", path |-> <<>>],
                   exc |-> ""], d.v, 1)

\* the dictionary built by the loop, before the conversion to lists
Built(d) == LoopExit(d).store.result

-----------------------------------------------------------------------------
(* unflatten: convert_to_list *)

\* keys.sort()
RECURSIVE Insert(_, _)
Insert(sorted, n) ==
    IF sorted = <<>> THEN <<n>>
    ELSE IF n <= Head(sorted) THEN <<n>> \o sorted
    ELSE <<Head(sorted)>> \o Insert(Tail(sorted), n)

RECURSIVE SortedInts(_)
SortedInts(ps) ==
    IF ps = <<>> THEN <<>>
    ELSE Insert(SortedInts(Tail(ps)), Int_(Head(ps)[1]))

\* list(range(lo, hi + 1))
Range(lo, hi) == [i \in 1..(hi - lo + 1) |-> lo + i - 1]

\* the try block reaches the return of a list: every int(k) succeeds, min(keys)
\* does not raise ValueError on an empty list, and the sorted keys are the range
IsListLike(d) ==
    /\ \A k \in Keys(d) : IntParses(k)
    /\ d.v # <<>>
    /\ LET keys == SortedInts(d.v)
       IN keys = Range(keys[1], keys[Len(keys)])

\* the element of the returned list for key k: d[str(k)]
Element(d, k) == Get(d, Str(k))

\* [d[str(k)] for k in keys]; a missing str(k) raises KeyError
AsList(d) ==
    LET keys == SortedInts(d.v)
    IN IF \E i \in 1..Len(keys) : ~Has(d, Str(keys[i])) THEN Raise("KeyError")
       ELSE List([i \in 1..Len(keys) |-> Element(d, keys[i])])

RECURSIVE convert_to_list(_), ConvertItems(_, _, _)

\* {k: convert_to_list(v) for k, v in d.items()}
ConvertItems(d, i, acc) ==
    IF i > Len(d.v) THEN Dict(acc)
    ELSE LET c == convert_to_list(d.v[i][2])
         IN IF c.t = "raise" THEN c
            ELSE ConvertItems(d, i + 1, Append(acc, <<d.v[i][1], c>>))

convert_to_list(d) ==
    IF d.t = "dict"
    THEN IF IsListLike(d) THEN AsList(d) ELSE ConvertItems(d, 1, <<>>)
    ELSE d

\* unflatten(d): the returned value or the exception raised
unflatten(d) ==
    IF LoopExit(d).exc # "" THEN Raise(LoopExit(d).exc)
    ELSE convert_to_list(Built(d))

-----------------------------------------------------------------------------
(* The inputs *)

BodyKeys(b) == {b[i][1] : i \in 1..Len(b)}

\* the bodies of the lists of n - 1 nodes whose first element has s or more
RECURSIVE ListLevel(_, _, _)
ListLevel(t, n, s) ==
    IF s > n - 1 THEN {}
    ELSE {<<v>> \o b : v \in t.nv[s], b \in t.lb[n - s]} \cup ListLevel(t, n, s + 1)

\* the bodies of the dicts of n - 1 nodes whose first value has s or more
RECURSIVE DictLevel(_, _, _)
DictLevel(t, n, s) ==
    IF s > n - 1 THEN {}
    ELSE {<< <<x[1], x[2]>> >> \o x[3] :
              x \in {y \in DataKeys \X t.nv[s] \X t.db[n - s] :
                         y[1] \notin BodyKeys(y[3])}}
         \cup DictLevel(t, n, s + 1)

\* nv[k]: the nested values of exactly k nodes, dicts in every insertion order;
\* lb[k], db[k]: the bodies of the lists and dicts of k nodes
RECURSIVE ValueTables(_)
ValueTables(n) ==
    IF n = 0 THEN [nv |-> <<>>, lb |-> <<>>, db |-> <<>>]
    ELSE LET t == ValueTables(n - 1)
             lb == IF n = 1 THEN {<<>>} ELSE ListLevel(t, n, 1)
             db == IF n = 1 THEN {<<>>} ELSE DictLevel(t, n, 1)
             nv == (IF n = 1 THEN {Scalar(s) : s \in Scalars} ELSE {})
                   \cup {List(b) : b \in lb} \cup {Dict(b) : b \in db}
         IN [nv |-> Append(t.nv, nv), lb |-> Append(t.lb, lb), db |-> Append(t.db, db)]

RECURSIVE JoinParts(_)
JoinParts(p) ==
    IF Len(p) = 1 THEN p[1] ELSE p[1] \o Sep \o JoinParts(Tail(p))

\* the keys of exactly m segments
FlatKeys(m) == {JoinParts(p) : p \in [1..m -> Segs]}

\* the bodies of the flat dictionaries whose keys have n segments in all, the
\* first key m or more
RECURSIVE FlatLevel(_, _, _)
FlatLevel(t, n, m) ==
    IF m > n THEN {}
    ELSE {<< <<x[1], Scalar(x[2])>> >> \o x[3] :
              x \in {y \in FlatKeys(m) \X FlatScalars \X t[n - m + 1] :
                         y[1] \notin BodyKeys(y[3])}}
         \cup FlatLevel(t, n, m + 1)

\* the table whose entry k + 1 is the bodies of the flat dictionaries whose keys
\* have k segments in all
RECURSIVE FlatTable(_)
FlatTable(n) ==
    IF n = 0 THEN << {<<>>} >>
    ELSE LET t == FlatTable(n - 1) IN Append(t, FlatLevel(t, n, 1))

\* the values the caller passes to flatten, by their number of nodes, and the
\* bodies of the dictionaries it passes to unflatten, by their number of segments
NestedInputs == ValueTables(MaxNodes).nv
FlatInputs == FlatTable(MaxParts)

-----------------------------------------------------------------------------
(* The calls *)

Init ==
    /\ pc = "call"
    /\ \/ /\ op = "flatten"
          /\ \E k \in 1..MaxNodes : arg \in NestedInputs[k]
          /\ orig = arg
       \/ /\ op = "unflatten"
          /\ \E k \in 0..MaxParts : arg \in {Dict(b) : b \in FlatInputs[k + 1]}
          /\ orig = Unset
    /\ arg0 = arg
    /\ ret = Unset
    /\ fetch = Idle /\ ddp = Idle /\ mmlu = Idle

\* flatten(arg): nothing in the function assigns into data
CallFlatten ==
    /\ pc = "call" /\ op = "flatten"
    /\ ret' = flatten(arg, DefaultParentKey)
    /\ pc' = "done"
    /\ UNCHANGED <<op, arg, arg0, orig, fetch, ddp, mmlu>>

\* unflatten(arg)
CallUnflatten ==
    /\ pc = "call" /\ op = "unflatten"
    /\ ret' = unflatten(arg)
    /\ arg' = LoopExit(arg).store.arg
    /\ pc' = "done"
    /\ UNCHANGED <<op, arg0, orig, fetch, ddp, mmlu>>

\* the caller passes the flat dictionary returned by flatten to unflatten
RoundTrip ==
    /\ pc = "done" /\ op = "flatten"
    /\ op' = "unflatten"
    /\ arg' = ret
    /\ arg0' = ret
    /\ ret' = Unset
    /\ pc' = "call"
    /\ UNCHANGED <<orig, fetch, ddp, mmlu>>

Next == CallFlatten \/ CallUnflatten \/ RoundTrip

Spec == Init /\ [][Next]_vars

-----------------------------------------------------------------------------
(* Notions the properties are stated with *)

Returned(f) == pc = "done" /\ op = f

\* Python's == on two values
RECURSIVE PyEq(_, _)
PyEq(a, b) ==
    /\ a.t = b.t
    /\ IF a.t = "list"
       THEN Len(a.v) = Len(b.v) /\ \A i \in 1..Len(a.v) : PyEq(a.v[i], b.v[i])
       ELSE IF a.t = "dict"
       THEN Keys(a) = Keys(b) /\ \A k \in Keys(a) : PyEq(Get(a, k), Get(b, k))
       ELSE a.v = b.v /\ ~IsNaN(a)

\* the scalar leaves of a nested value, each with the segments of its path
RECURSIVE Leaves(_, _)
Leaves(v, path) ==
    IF v.t = "list"
    THEN UNION {Leaves(v.v[i], Append(path, Str(i - 1))) : i \in 1..Len(v.v)}
    ELSE IF v.t = "dict"
    THEN UNION {Leaves(v.v[i][2], Append(path, v.v[i][1])) : i \in 1..Len(v.v)}
    ELSE {<<path, v>>}

RECURSIVE LeafCount(_), LeafCountAll(_)
LeafCount(v) ==
    IF v.t = "list" THEN LeafCountAll(v.v)
    ELSE IF v.t = "dict" THEN LeafCountAll([i \in 1..Len(v.v) |-> v.v[i][2]])
    ELSE 1
LeafCountAll(vs) ==
    IF vs = <<>> THEN 0 ELSE LeafCount(Head(vs)) + LeafCountAll(Tail(vs))

\* the key of a path: its segments joined by the separator, None for no segment
PathKey(path) == IF path = <<>> THEN None ELSE JoinParts(path)

HasSep(k) == \E i \in 1..Len(k) : k[i] = Sep[1]

\* the dict nodes of a value
RECURSIVE DictNodes(_)
DictNodes(v) ==
    IF v.t = "list" THEN UNION {DictNodes(v.v[i]) : i \in 1..Len(v.v)}
    ELSE IF v.t = "dict"
    THEN {v} \cup UNION {DictNodes(v.v[i][2]) : i \in 1..Len(v.v)}
    ELSE {}

Entries(d) == {<<d.v[i][1], d.v[i][2]>> : i \in 1..Len(d.v)}

-----------------------------------------------------------------------------
(* flatten *)

\* C5: when no dict key of v contains the separator, flatten(v) has exactly one
\* entry per scalar leaf of v, None included, and no other; the key of an entry
\* is the dict keys and the zero-based decimal list indices on the way from the
\* root to the leaf, joined by the separator, and its value is the leaf.
C5_OneEntryPerLeaf ==
    (Returned("flatten") /\ \A n \in DictNodes(arg0) : \A k \in Keys(n) : ~HasSep(k))
        => /\ ret.t = "dict"
           /\ Len(ret.v) = LeafCount(arg0)
           /\ Entries(ret) = {<<PathKey(l[1]), l[2]>> : l \in Leaves(arg0, <<>>)}

\* flatten({"a": [x, None]}) returned {"a.0": x, "a.1": None}
C5_Witness ==
    /\ Returned("flatten")
    /\ arg0 = Dict(<< <<<<"a">>, List(<<Scalar("x"), Scalar("null")>>)>> >>)
    /\ ret = Dict(<< <<<<"a", ".", "0">>, Scalar("x")>>,
                     <<<<"a", ".", "1">>, Scalar("null")>> >>)

-----------------------------------------------------------------------------
(* The argument of a call *)

\* C9: when flatten or unflatten has returned or raised, the object the caller
\* passed is what it was at the call.
C9_ArgumentUnchanged == pc = "done" => arg = arg0

\* unflatten({"a.0": x}) created the node "a" and returned {"a": [x]}
C9_Witness ==
    /\ Returned("unflatten")
    /\ arg0 = Dict(<< <<<<"a", ".", "0">>, Scalar("x")>> >>)
    /\ ret = Dict(<< <<<<"a">>, List(<<Scalar("x")>>)>> >>)

-----------------------------------------------------------------------------
(* unflatten *)

StrKeys(d) == \A k \in Keys(d) : k # None

IsPrefix(p, q) == Len(p) <= Len(q) /\ SubSeq(q, 1, Len(p)) = p

RECURSIVE HasPath(_, _)
HasPath(node, path) ==
    \/ path = <<>>
    \/ /\ Has(node, Head(path))
       /\ HasPath(Get(node, Head(path)), Tail(path))

\* the paths of the dict nodes of a dictionary built by the loop
RECURSIVE NodePaths(_, _)
NodePaths(node, path) ==
    IF node.t = "dict"
    THEN {path} \cup UNION {NodePaths(node.v[i][2], Append(path, node.v[i][1])) :
                                i \in 1..Len(node.v)}
    ELSE {}

IntKeys(n) == {Int_(k) : k \in Keys(n)}
MinKey(n) == CHOOSE x \in IntKeys(n) : \A y \in IntKeys(n) : x <= y
MaxKey(n) == CHOOSE x \in IntKeys(n) : \A y \in IntKeys(n) : y <= x

\* the keys all parse as integers and form a contiguous range
ContiguousIntKeys(n) ==
    /\ n.v # <<>>
    /\ \A k \in Keys(n) : IntParses(k)
    /\ Cardinality(IntKeys(n)) = Len(n.v)
    /\ \A x \in MinKey(n)..MaxKey(n) : x \in IntKeys(n)

\* the value of the key of n that parses as x
ValueOfInt(n, x) == Get(n, CHOOSE k \in Keys(n) : Int_(k) = x)

\* the node of the returned value r that stands for the node at path of the
\* built dictionary b: an element of a list stands for the key of its rank
RECURSIVE Image(_, _, _)
Image(r, b, path) ==
    IF path = <<>> THEN r
    ELSE Image(IF r.t = "list" THEN r.v[Int_(Head(path)) - MinKey(b) + 1]
               ELSE Get(r, Head(path)),
               Get(b, Head(path)), Tail(path))

NoNaN(v) == \A l \in Leaves(v, <<>>) : ~IsNaN(l[2])

\* every entry of d whose key is under the path p has a NaN value
AllNaNUnder(d, p) ==
    \A i \in 1..Len(d.v) : IsPrefix(p, Split(d.v[i][1])) => IsNaN(d.v[i][2])

\* C1: for every nested value v without NaN, unflatten(flatten(v)) == v.
C1_RoundTrip ==
    (Returned("unflatten") /\ orig # Unset /\ NoNaN(orig)) => PyEq(ret, orig)

\* C2: an entry with a NaN value is skipped before a node is created for its
\* path: a path under which every entry has a NaN value has no node in the
\* dictionary unflatten builds.
C2_NoNodeForNaNSubtree ==
    (Returned("unflatten") /\ StrKeys(arg0))
        => \A i \in 1..Len(arg0.v) :
               \A j \in 1..Len(Split(arg0.v[i][1])) :
                   AllNaNUnder(arg0, SubSeq(Split(arg0.v[i][1]), 1, j))
                       => ~HasPath(Built(arg0), SubSeq(Split(arg0.v[i][1]), 1, j))

\* C3: no dict node of the value unflatten returns, at any depth, has a
\* non-empty key set whose keys all parse as integers and form a contiguous
\* range.
C3_NoListLikeDictLeft ==
    (Returned("unflatten") /\ ret.t # "raise")
        => \A n \in DictNodes(ret) : ~ContiguousIntKeys(n)

\* C4: unflatten raises no exception for a flat dictionary with str keys and
\* scalar values.
C4_NeverRaises ==
    (Returned("unflatten") /\ StrKeys(arg0)) => ret.t # "raise"

\* C6: a dict node whose keys all parse as integers and form a contiguous range
\* is a list in the returned value, whose elements are the values of the node
\* (converted or not) in ascending order of the integer keys, from the least key.
C6_ListInKeyOrder ==
    (Returned("unflatten") /\ StrKeys(arg0))
        => \A p \in NodePaths(Built(arg0), <<>>) :
               LET n == At(Built(arg0), p)
               IN ContiguousIntKeys(n)
                      => /\ ret.t # "raise"
                         /\ Image(ret, Built(arg0), p).t = "list"
                         /\ Len(Image(ret, Built(arg0), p).v) = Len(n.v)
                         /\ \A i \in 1..Len(n.v) :
                                Image(ret, Built(arg0), p).v[i]
                                    \in {ValueOfInt(n, MinKey(n) + i - 1),
                                         convert_to_list(ValueOfInt(n, MinKey(n) + i - 1))}

\* C7: a dict node with a key that does not parse as an integer, or whose
\* integer keys are not a contiguous range, is a dict with the same keys in the
\* returned value, and the conversion has been applied to its children.
C7_MappingKept ==
    (Returned("unflatten") /\ StrKeys(arg0))
        => \A p \in NodePaths(Built(arg0), <<>>) :
               LET n == At(Built(arg0), p)
               IN ~ContiguousIntKeys(n)
                      => /\ ret.t # "raise"
                         /\ Image(ret, Built(arg0), p).t = "dict"
                         /\ Keys(Image(ret, Built(arg0), p)) = Keys(n)
                         /\ \A k \in Keys(n) :
                                (Get(n, k).t = "dict" /\ ContiguousIntKeys(Get(n, k)))
                                    => Get(Image(ret, Built(arg0), p), k).t = "list"

\* the flat dictionary d without its entries of NaN value
WithoutNaN(d) == Dict(SelectSeq(d.v, LAMBDA e : ~IsNaN(e[2])))

\* C8: unflatten treats the entries with a NaN value as absent: it returns what
\* it returns without them, a value in which no entry with a NaN value has its
\* leaf key and every other entry is at its path with its value.
C8_NaNAbsentOthersPresent ==
    (Returned("unflatten") /\ StrKeys(arg0))
        => /\ ret.t # "raise"
           /\ ret = unflatten(WithoutNaN(arg0))
           /\ \A i \in 1..Len(arg0.v) :
                  IF IsNaN(arg0.v[i][2])
                  THEN ~HasPath(Built(arg0), Split(arg0.v[i][1]))
                  ELSE /\ HasPath(Built(arg0), Split(arg0.v[i][1]))
                       /\ At(Built(arg0), Split(arg0.v[i][1])) = arg0.v[i][2]


-----------------------------------------------------------------------------
(* unflatten: the separator of the keys *)

\* the segments of key between the occurrences of the character c
RECURSIVE SegmentsAt(_, _, _)
SegmentsAt(key, c, cur) ==
    IF key = <<>> THEN <<cur>>
    ELSE IF Head(key) = c THEN <<cur>> \o SegmentsAt(Tail(key), c, <<>>)
    ELSE SegmentsAt(Tail(key), c, Append(cur, Head(key)))

HasChar(key, c) == \E i \in 1..Len(key) : key[i] = c

\* value is what node holds at path
RECURSIVE PlacedAt(_, _, _)
PlacedAt(node, path, value) ==
    IF path = <<>> THEN node = value
    ELSE /\ node.t = "dict"
         /\ Has(node, Head(path))
         /\ PlacedAt(Get(node, Head(path)), Tail(path), value)

\* C11: unflatten splits each key of the flat dictionary at every "/" and
\* places the value at that path of the nested dictionary it builds (stated
\* for the calls that return, the keys without "." and the values the loop
\* does not skip).
C11_SplitAtSlash ==
    (Returned("unflatten") /\ StrKeys(arg0) /\ ret.t # "raise") =>
        \A i \in 1..Len(arg0.v) :
            (~Skips(arg0.v[i][2]) /\ ~HasChar(arg0.v[i][1], "."))
                => PlacedAt(Built(arg0), SegmentsAt(arg0.v[i][1], "/", <<>>),
                            arg0.v[i][2])


-----------------------------------------------------------------------------
(* fetch_wandb_table *)

\* api.artifact_versions lists at most MaxVersions versions
MaxVersions == 2
\* a table.table.json holds at most MaxRows rows
MaxRows == 2

\* the flatten/unflatten variables while another function is called
CodecIdle ==
    /\ op = "idle" /\ pc = "idle"
    /\ arg = Unset /\ arg0 = Unset /\ orig = Unset /\ ret = Unset

\* the arguments: entity, project_name, artifact_id (without and with a
\* version), versions (the two documented values and another one)
Entity == <<"h">>
ProjectName == <<"C">>
ArtifactIdArgs == {<<"t">>, <<"t", ":", "v", "0">>}
VersionsArgs == {"latest", "all", "newest"}

\* what api.artifact_versions lists for an artifact of n versions: their
\* version attributes
Listing(n) == [i \in 1..n |-> <<"v">> \o Str(n - i)]

\* data["data"] of a table.table.json of n rows
Table(n) == [j \in 1..n |-> j]
Tables == {Table(n) : n \in 0..MaxRows}

\* what a worker raises: no table.table.json in the artifact directory, or an
\* error of api.artifact / artifact.download
WorkerErrors == {"ValueError", "CommError"}

\* artifact_id = f"{entity}/{project_name}/{artifact_id}"
FullId(f) == Entity \o <<"/">> \o ProjectName \o <<"/">> \o f.artifact_id

\* not (":" not in artifact_id): never true
IncludesVersionNever(artifact_id) == FALSE

\* not (":" not in artifact_id)
IncludesVersion(artifact_id) ==
    \E i \in 1..Len(artifact_id) : artifact_id[i] = ":"

\* f"{artifact_id}:{version.version}"
WithVersion(artifact_id, version) == artifact_id \o <<":">> \o version

\* the list artifact_ids, or the exception raised while it is built
ArtifactIds(f) ==
    LET artifact_id == FullId(f) IN
    IF ~IncludesVersion(artifact_id)
    THEN IF f.versions = "latest"
         THEN IF f.version_ids = <<>>
              THEN [exc |-> "IndexError", ids |-> <<>>]
              ELSE [exc |-> "",
                    ids |-> <<WithVersion(artifact_id, f.version_ids[1])>>]
         ELSE IF f.versions = "all"
         THEN [exc |-> "",
               ids |-> [i \in 1..Len(f.version_ids) |->
                           WithVersion(artifact_id, f.version_ids[i])]]
         ELSE [exc |-> "ValueError", ids |-> <<>>]
    ELSE [exc |-> "", ids |-> <<artifact_id>>]

\* curr_df: the rows of data["data"] with the column artifact_id
CurrDf(data, artifact_id) == [j \in 1..Len(data) |-> <<data[j], artifact_id>>]

\* pd.concat(all_dfs): the rows of the frames one frame after the other
RECURSIVE Concat(_)
Concat(dfs) == IF dfs = <<>> THEN <<>> ELSE Head(dfs) \o Concat(Tail(dfs))

\* the future whose result the iterator of executor.map yields next: the
\* first one completed
AwaitedAsCompleted(f) ==
    IF Len(f.results) < Len(f.completed)
    THEN f.completed[Len(f.results) + 1]
    ELSE Len(f.results) + 1

\* the future whose result the iterator of executor.map yields next: the
\* futures are taken in the order of submission, that of artifact_ids
Awaited(f) == Len(f.results) + 1

FetchInit ==
    /\ CodecIdle /\ ddp = Idle /\ mmlu = Idle
    /\ \E a \in ArtifactIdArgs, v \in VersionsArgs, n \in 0..MaxVersions :
           fetch = [pc |-> "call", artifact_id |-> a, versions |-> v,
                    version_ids |-> Listing(n), artifact_ids |-> <<>>,
                    futures |-> <<>>, completed |-> <<>>, results |-> <<>>,
                    exc |-> "", ret |-> Unset]

\* the call up to executor.map: artifact_ids is built and one future per
\* artifact id is submitted to the pool
FetchCall ==
    /\ fetch.pc = "call"
    /\ LET r == ArtifactIds(fetch) IN
       fetch' = IF r.exc # ""
                THEN [fetch EXCEPT !.pc = "raised", !.ret = Raise(r.exc)]
                ELSE [fetch EXCEPT
                        !.pc = "collect",
                        !.artifact_ids = r.ids,
                        !.futures = [i \in 1..Len(r.ids) |->
                                       [state |-> "pending", data |-> <<>>,
                                        result |-> <<>>, exc |-> ""]]]
    /\ UNCHANGED <<op, arg, arg0, orig, ret, pc, ddp, mmlu>>

\* a pool thread takes a work item and calls process_artifact: api.artifact
\* and artifact.download
WorkerStart(i) ==
    /\ fetch.pc \in {"collect", "shutdown"}
    /\ fetch.futures[i].state = "pending"
    /\ fetch' = [fetch EXCEPT !.futures[i].state = "running"]
    /\ UNCHANGED <<op, arg, arg0, orig, ret, pc, ddp, mmlu>>

\* process_artifact finds the table and returns curr_df
WorkerReturn(i) ==
    /\ fetch.pc \in {"collect", "shutdown"}
    /\ fetch.futures[i].state = "running"
    /\ \E data \in Tables :
           fetch' = [fetch EXCEPT
                       !.futures[i].state = "finished",
                       !.futures[i].data = data,
                       !.futures[i].result = CurrDf(data, fetch.artifact_ids[i]),
                       !.completed = Append(@, i)]
    /\ UNCHANGED <<op, arg, arg0, orig, ret, pc, ddp, mmlu>>

\* process_artifact raises
WorkerRaise(i) ==
    /\ fetch.pc \in {"collect", "shutdown"}
    /\ fetch.futures[i].state = "running"
    /\ \E e \in WorkerErrors :
           fetch' = [fetch EXCEPT
                       !.futures[i].state = "failed",
                       !.futures[i].exc = e,
                       !.completed = Append(@, i)]
    /\ UNCHANGED <<op, arg, arg0, orig, ret, pc, ddp, mmlu>>

\* list(executor.map(...)) takes the result of the awaited future
Collect ==
    /\ fetch.pc = "collect"
    /\ Awaited(fetch) \in 1..Len(fetch.futures)
    /\ fetch.futures[Awaited(fetch)].state = "finished"
    /\ fetch' = [fetch EXCEPT
                   !.results = Append(@, fetch.futures[Awaited(fetch)].result)]
    /\ UNCHANGED <<op, arg, arg0, orig, ret, pc, ddp, mmlu>>

\* the awaited future has failed: its exception is raised in the caller and
\* the iterator cancels the futures still pending
CollectRaise ==
    /\ fetch.pc = "collect"
    /\ Awaited(fetch) \in 1..Len(fetch.futures)
    /\ fetch.futures[Awaited(fetch)].state = "failed"
    /\ fetch' = [fetch EXCEPT
                   !.pc = "shutdown",
                   !.exc = fetch.futures[Awaited(fetch)].exc,
                   !.futures = [i \in 1..Len(@) |->
                                  IF @[i].state = "pending"
                                  THEN [@[i] EXCEPT !.state = "cancelled"]
                                  ELSE @[i]]]
    /\ UNCHANGED <<op, arg, arg0, orig, ret, pc, ddp, mmlu>>

\* the with block is left with the exception: the executor waits for the
\* running futures, then the exception leaves the call
Shutdown ==
    /\ fetch.pc = "shutdown"
    /\ \A i \in 1..Len(fetch.futures) : fetch.futures[i].state # "running"
    /\ fetch' = [fetch EXCEPT !.pc = "raised", !.ret = Raise(fetch.exc)]
    /\ UNCHANGED <<op, arg, arg0, orig, ret, pc, ddp, mmlu>>

\* every result is taken: all_dfs.extend(results); df = pd.concat(all_dfs),
\* which raises ValueError for an empty list
FetchConcat ==
    /\ fetch.pc = "collect"
    /\ Len(fetch.results) = Len(fetch.futures)
    /\ fetch' = IF fetch.results = <<>>
                THEN [fetch EXCEPT !.pc = "raised", !.ret = Raise("ValueError")]
                ELSE [fetch EXCEPT !.pc = "done",
                                   !.ret = [t |-> "df", v |-> Concat(fetch.results)]]
    /\ UNCHANGED <<op, arg, arg0, orig, ret, pc, ddp, mmlu>>

FetchNext ==
    \/ FetchCall
    \/ \E i \in 1..Len(fetch.futures) : WorkerStart(i)
    \/ \E i \in 1..Len(fetch.futures) : WorkerReturn(i)
    \/ \E i \in 1..Len(fetch.futures) : WorkerRaise(i)
    \/ Collect
    \/ CollectRaise
    \/ Shutdown
    \/ FetchConcat

FetchSpec == FetchInit /\ [][FetchNext]_vars


-----------------------------------------------------------------------------
(* fetch_wandb_table: the versions parameter *)

Ended(f) == f.pc \in {"done", "raised"}

\* the artifact ids a pool thread has called process_artifact with
Fetched(f) ==
    {f.artifact_ids[i] : i \in {j \in 1..Len(f.futures) :
                                   f.futures[j].state \in {"running", "finished", "failed"}}}

\* the outcome of the call with the one artifact id is that of its worker
OutcomeOfOne(f) ==
    /\ f.futures[1].state = "finished" =>
           IF f.futures[1].data = <<>>
           THEN f.ret = [t |-> "df", v |-> <<>>]
           ELSE f.ret = [t |-> "df",
                         v |-> [j \in 1..Len(f.futures[1].data) |->
                                   <<f.futures[1].data[j], f.artifact_ids[1]>>]]
    /\ f.futures[1].state = "failed" => f.ret = Raise(f.futures[1].exc)

\* the artifact id includes a version: that one version is fetched, whatever
\* versions is
VersionGiven(f) ==
    /\ f.artifact_ids = <<FullId(f)>>
    /\ Fetched(f) = {FullId(f)}
    /\ OutcomeOfOne(f)

\* 'latest' fetches one version
LatestOne(f) == Len(f.artifact_ids) = 1 /\ Fetched(f) = {f.artifact_ids[1]}

\* 'all' asks for every listed version, in the order of the listing
AllListed(f) ==
    /\ Len(f.artifact_ids) = Len(f.version_ids)
    /\ \A i \in 1..Len(f.version_ids) :
           f.artifact_ids[i] = FullId(f) \o <<":">> \o f.version_ids[i]
    /\ Fetched(f) \subseteq {f.artifact_ids[i] : i \in 1..Len(f.artifact_ids)}

\* another value raises ValueError and nothing was downloaded
InvalidRaises(f) ==
    /\ f.ret = Raise("ValueError")
    /\ f.futures = <<>> /\ Fetched(f) = {}

-----------------------------------------------------------------------------
(* fetch_wandb_table: the thread pool *)

\* the rows of the tables of the artifacts i.., each with its artifact id
RECURSIVE RowsInListOrder(_, _)
RowsInListOrder(f, i) ==
    IF i > Len(f.artifact_ids) THEN <<>>
    ELSE [j \in 1..Len(f.futures[i].data) |->
             <<f.futures[i].data[j], f.artifact_ids[i]>>]
         \o RowsInListOrder(f, i + 1)

\* C15: the table returned is the per-artifact tables in the order of the
\* artifact id list, whatever the order in which the workers finish, every
\* row with the artifact id it came from; and once a worker has raised the
\* call does not return a table.
C15_TableInListOrder ==
    /\ fetch.pc = "done" =>
           /\ fetch.ret.t = "df"
           /\ fetch.ret.v = RowsInListOrder(fetch, 1)
    /\ (fetch.pc # "idle" /\ \E i \in 1..Len(fetch.futures) :
                                 fetch.futures[i].state = "failed") =>
           /\ fetch.pc # "done"
           /\ fetch.ret.t # "df"
           /\ fetch.pc = "raised" => fetch.ret.t = "raise"

\* a table of two artifacts is returned, the worker of the second having
\* finished before the worker of the first
C15_Witness ==
    /\ fetch.pc = "done"
    /\ Len(fetch.artifact_ids) = 2
    /\ fetch.completed = <<2, 1>>
    /\ fetch.futures[1].data # <<>> /\ fetch.futures[2].data # <<>>


-----------------------------------------------------------------------------
(* download_artifacts *)

\* a distributed run has at most MaxRanks processes
MaxRanks == 3
\* the list given to download_artifacts has at most MaxArtifacts names
MaxArtifacts == 2

\* artifact names: a wandb artifact and a local pickle file
ArtifactNames == {<<"d">>, <<"d", ".", "p", "k", "l">>}

RECURSIVE ArtifactLists(_)
ArtifactLists(n) ==
    IF n = 0 THEN {<<>>}
    ELSE {<<>>} \cup {<<a>> \o l : a \in ArtifactNames, l \in ArtifactLists(n - 1)}

\* what download_artifact raises: an error of use_artifact, api.artifact or
\* artifact.download, or the failed assert
DownloadErrors == {"CommError", "AssertionError"}

\* artifact_name.endswith(suffix)
EndsWith(artifact_name, suffix) ==
    /\ Len(artifact_name) >= Len(suffix)
    /\ SubSeq(artifact_name, Len(artifact_name) - Len(suffix) + 1,
              Len(artifact_name)) = suffix

\* the processes of the run: dist.get_rank() of each
Ranks(d) == 0..(d.world - 1)

\* is_rank_zero: true in every process
IsRankZeroAlways(d, r) == TRUE

\* is_rank_zero = not is_ddp or dist.get_rank() == 0
IsRankZero(d, r) == ~d.is_ddp \/ r = 0

\* dist.barrier() lets a process go on once every process has entered it
BarrierOpen(d) == d.arrived = Ranks(d)

\* LOCAL_RANK is set in the processes of a distributed run of two processes
\* or more, and unset in a single process
DdpInit ==
    /\ CodecIdle /\ fetch = Idle /\ mmlu = Idle
    /\ \E is_ddp \in BOOLEAN, w \in 1..MaxRanks, l \in ArtifactLists(MaxArtifacts) :
           /\ is_ddp <=> w > 1
           /\ ddp = [pc |-> "run", at |-> [r \in 0..(w - 1) |-> "call"],
                     is_ddp |-> is_ddp, world |-> w, artifacts |-> l,
                     i |-> [r \in 0..(w - 1) |-> 1],
                     calls |-> {}, downloaded |-> {}, arrived |-> {},
                     exc |-> [r \in 0..(w - 1) |-> ""]]

\* process r calls download_artifacts: rank zero goes to the loop, another
\* process of a distributed run to the barrier
Enter(r) ==
    /\ ddp.at[r] = "call"
    /\ ddp' = IF IsRankZero(ddp, r)
              THEN [ddp EXCEPT !.at[r] = "loop"]
              ELSE [ddp EXCEPT !.at[r] = "barrier", !.arrived = @ \cup {r}]
    /\ UNCHANGED <<op, arg, arg0, orig, ret, pc, fetch, mmlu>>

\* download_artifact(artifact_name) of a name ending in .pkl returns at once
DownloadSkip(r) ==
    /\ ddp.at[r] = "loop"
    /\ ddp.i[r] <= Len(ddp.artifacts)
    /\ EndsWith(ddp.artifacts[ddp.i[r]], <<".", "p", "k", "l">>)
    /\ ddp' = [ddp EXCEPT !.calls = @ \cup {<<r, ddp.i[r]>>},
                          !.i[r] = @ + 1]
    /\ UNCHANGED <<op, arg, arg0, orig, ret, pc, fetch, mmlu>>

\* download_artifact(artifact_name) downloads the artifact and returns
DownloadReturn(r) ==
    /\ ddp.at[r] = "loop"
    /\ ddp.i[r] <= Len(ddp.artifacts)
    /\ ~EndsWith(ddp.artifacts[ddp.i[r]], <<".", "p", "k", "l">>)
    /\ ddp' = [ddp EXCEPT !.calls = @ \cup {<<r, ddp.i[r]>>},
                          !.downloaded = @ \cup {<<r, ddp.i[r]>>},
                          !.i[r] = @ + 1]
    /\ UNCHANGED <<op, arg, arg0, orig, ret, pc, fetch, mmlu>>

\* download_artifact(artifact_name) raises: the exception leaves
\* download_artifacts, which has no handler
DownloadRaise(r) ==
    /\ ddp.at[r] = "loop"
    /\ ddp.i[r] <= Len(ddp.artifacts)
    /\ ~EndsWith(ddp.artifacts[ddp.i[r]], <<".", "p", "k", "l">>)
    /\ \E e \in DownloadErrors :
           ddp' = [ddp EXCEPT !.calls = @ \cup {<<r, ddp.i[r]>>},
                              !.at[r] = "raised", !.exc[r] = e]
    /\ UNCHANGED <<op, arg, arg0, orig, ret, pc, fetch, mmlu>>

\* the loop is over: a process of a distributed run enters the barrier, a
\* single process returns
LoopEnd(r) ==
    /\ ddp.at[r] = "loop"
    /\ ddp.i[r] > Len(ddp.artifacts)
    /\ ddp' = IF ddp.is_ddp
              THEN [ddp EXCEPT !.at[r] = "barrier", !.arrived = @ \cup {r}]
              ELSE [ddp EXCEPT !.at[r] = "returned"]
    /\ UNCHANGED <<op, arg, arg0, orig, ret, pc, fetch, mmlu>>

\* dist.barrier() returns in process r, and download_artifacts with it
BarrierReturn(r) ==
    /\ ddp.at[r] = "barrier"
    /\ BarrierOpen(ddp)
    /\ ddp' = [ddp EXCEPT !.at[r] = "returned"]
    /\ UNCHANGED <<op, arg, arg0, orig, ret, pc, fetch, mmlu>>

\* dist.barrier() gives up in process r: a process group set up with a
\* timeout raises in a process that has waited that long for the others.
\* download_artifacts sets no timeout and handles none, so this step can be
\* taken while r waits but nothing makes it happen.
BarrierTimeout(r) ==
    /\ ddp.at[r] = "barrier"
    /\ ~BarrierOpen(ddp)
    /\ ddp' = [ddp EXCEPT !.at[r] = "raised", !.exc[r] = "DistBackendError"]
    /\ UNCHANGED <<op, arg, arg0, orig, ret, pc, fetch, mmlu>>

\* a step of the code of download_artifacts in the process of rank r
RankStep(r) ==
    /\ r \in Ranks(ddp)
    /\ \/ Enter(r)
       \/ DownloadSkip(r)
       \/ DownloadReturn(r)
       \/ DownloadRaise(r)
       \/ LoopEnd(r)
       \/ BarrierReturn(r)

DdpNext ==
    \/ \E r \in Ranks(ddp) : Enter(r)
    \/ \E r \in Ranks(ddp) : DownloadSkip(r)
    \/ \E r \in Ranks(ddp) : DownloadReturn(r)
    \/ \E r \in Ranks(ddp) : DownloadRaise(r)
    \/ \E r \in Ranks(ddp) : LoopEnd(r)
    \/ \E r \in Ranks(ddp) : BarrierReturn(r)
    \/ \E r \in Ranks(ddp) : BarrierTimeout(r)

DdpSpec == DdpInit /\ [][DdpNext]_vars

\* every process whose code can take a step eventually takes one: each rank
\* is a running process of its own
DdpFairSpec == DdpSpec /\ \A r \in 0..(MaxRanks - 1) : WF_vars(RankStep(r))

-----------------------------------------------------------------------------
(* download_artifacts: rank zero and the barrier *)

Left(d, r) == d.at[r] \in {"returned", "raised"}

\* every download_artifact call of the list has returned in rank 0, the
\* artifacts that are no .pkl file downloaded, and rank 0 has entered the
\* barrier
RankZeroDone(d) ==
    /\ d.i[0] > Len(d.artifacts)
    /\ 0 \in d.arrived
    /\ \A k \in 1..Len(d.artifacts) :
           /\ <<0, k>> \in d.calls
           /\ ~EndsWith(d.artifacts[k], <<".", "p", "k", "l">>)
                  => <<0, k>> \in d.downloaded

\* C13: in a distributed run only rank 0 calls download_artifact, and no rank
\* returns from download_artifacts before every download_artifact call of
\* the list has returned in rank 0.
C13_OnlyRankZeroDownloads ==
    (ddp.pc # "idle" /\ ddp.is_ddp) =>
        /\ \A c \in ddp.calls : c[1] = 0
        /\ \A r \in Ranks(ddp) : ddp.at[r] = "returned" => RankZeroDone(ddp)

\* a rank other than 0 has returned in a distributed run whose list names an
\* artifact to download
C13_Witness ==
    /\ ddp.pc # "idle" /\ ddp.is_ddp
    /\ \E r \in Ranks(ddp) : r # 0 /\ ddp.at[r] = "returned"
    /\ \E k \in 1..Len(ddp.artifacts) : <<0, k>> \in ddp.downloaded

\* C14: in a distributed run every rank eventually leaves download_artifacts,
\* by returning or raising, whatever the outcome of the downloads on rank 0.
C14_EveryRankLeaves ==
    <>(ddp.pc # "idle" /\ \A r \in Ranks(ddp) : Left(ddp, r))


-----------------------------------------------------------------------------
(* MMLUGenerateDataset.score *)

\* what follows the head of a prediction has at most MaxTail characters
MaxTail == 2
\* an answer has at most MaxAnswer characters
MaxAnswer == 2

\* "The best answer is"
BestAnswerIs ==
    <<"T", "h", "e", " ", "b", "e", "s", "t", " ",
      "a", "n", "s", "w", "e", "r", " ", "i", "s">>

\* the characters of the predictions and answers: a blank and two choices
ScoreChars == {" ", "A", "B"}

RECURSIVE Strings(_)
Strings(n) ==
    IF n = 0 THEN {<<>>}
    ELSE {<<>>} \cup {<<c>> \o t : c \in ScoreChars, t \in Strings(n - 1)}

\* predictions: an optional blank, nothing or the phrase or its beginning,
\* and a tail
PredArgs ==
    {l \o h \o t : l \in {<<>>, <<" ">>},
                   h \in {<<>>, BestAnswerIs, SubSeq(BestAnswerIs, 1, 8)},
                   t \in Strings(MaxTail)}
\* answers: every non-empty string
AnswerArgs == Strings(MaxAnswer) \ {<<>>}

IsSpace(c) == c = " "

RECURSIVE LStrip(_)
LStrip(s) == IF s # <<>> /\ IsSpace(Head(s)) THEN LStrip(Tail(s)) ELSE s

RECURSIVE RStrip(_)
RStrip(s) ==
    IF s # <<>> /\ IsSpace(s[Len(s)]) THEN RStrip(SubSeq(s, 1, Len(s) - 1)) ELSE s

\* s.strip()
Strip(s) == RStrip(LStrip(s))

\* s.startswith(prefix)
StartsWith(s, prefix) ==
    Len(s) >= Len(prefix) /\ SubSeq(s, 1, Len(prefix)) = prefix

\* s[n:]
From(s, n) == SubSeq(s, n + 1, Len(s))

\* the tuple (value, {})
Pair(value) == [t |-> "tuple", v |-> <<value, Dict(<<>>)>>]

\* pred after the second if
WithoutPrefix(pred) ==
    IF StartsWith(Strip(pred), BestAnswerIs)
    THEN Strip(From(Strip(pred), Len(BestAnswerIs)))
    ELSE pred

\* score(pred, answer, convo_id); s[0] of an empty s raises IndexError
score(pred, answer) ==
    IF Len(Strip(pred)) = 0 THEN Pair(FALSE)
    ELSE IF Strip(WithoutPrefix(pred)) = <<>> THEN Raise("IndexError")
    ELSE IF Strip(answer) = <<>> THEN Raise("IndexError")
    ELSE Pair(Strip(WithoutPrefix(pred))[1] = Strip(answer)[1])

MmluInit ==
    /\ CodecIdle /\ fetch = Idle /\ ddp = Idle
    /\ \E pred \in PredArgs, answer \in AnswerArgs :
           mmlu = [pc |-> "call", pred |-> pred, answer |-> answer, ret |-> Unset]

CallScore ==
    /\ mmlu.pc = "call"
    /\ mmlu' = [mmlu EXCEPT !.pc = "done", !.ret = score(mmlu.pred, mmlu.answer)]
    /\ UNCHANGED <<op, arg, arg0, orig, ret, pc, fetch, ddp>>

MmluNext == CallScore

MmluSpec == MmluInit /\ [][MmluNext]_vars

-----------------------------------------------------------------------------
(* score: the result for every prediction *)

\* the prediction without blanks around it, without the phrase it begins
\* with, and without the blanks after the phrase
Remaining(pred) ==
    LET p == Strip(pred) IN
    IF StartsWith(p, BestAnswerIs) THEN LStrip(From(p, Len(BestAnswerIs))) ELSE p

\* C16: for every prediction and every non-empty answer score returns a pair
\* (boolean, {}) and raises nothing: False for an empty or blank prediction,
\* and else whether the first character remaining after the phrase "The best
\* answer is" and the blanks around are removed is the first character of
\* the stripped answer, also when nothing remains (stated for the answers
\* that are not blank).
C16_ScoreNeverRaises ==
    (mmlu.pc = "done" /\ Strip(mmlu.answer) # <<>>) =>
        /\ mmlu.ret.t = "tuple"
        /\ mmlu.ret.v[2] = Dict(<<>>)
        /\ mmlu.ret.v[1] \in BOOLEAN
        /\ Strip(mmlu.pred) = <<>> => mmlu.ret.v[1] = FALSE
        /\ (Remaining(mmlu.pred) # <<>> /\ Strip(mmlu.answer) # <<>>) =>
               mmlu.ret.v[1] = (Remaining(mmlu.pred)[1] = Strip(mmlu.answer)[1])


-----------------------------------------------------------------------------
(* unflatten: the order of the entries *)

\* the orders of n entries
Orders(n) == {f \in [1..n -> 1..n] : \A i, j \in 1..n : f[i] = f[j] => i = j}

\* the dictionary with the entries of d inserted in the order f
Reordered(d, f) == Dict([i \in 1..Len(d.v) |-> d.v[f[i]]])

\* equal returned values, or an exception in both cases
SameOutcome(a, b) ==
    IF a.t = "raise" \/ b.t = "raise" THEN a.t = b.t ELSE PyEq(a, b)

\* C17: unflatten gives the same outcome for the same string-key entries in
\* every insertion order, also when one key is a path prefix of another.
C17_OrderIndependent ==
    (Returned("unflatten") /\ StrKeys(arg0)) =>
        \A f \in Orders(Len(arg0.v)) :
            SameOutcome(unflatten(Reordered(arg0, f)), ret)

====
